---- MODULE Spec2Model ----
(***************************************************************************)
(* Model of the group routes of the Express/Sequelize backend              *)
(* (backend/routes/api/groups.js) and of the event partitioning of the     *)
(* single-group page (frontend/src/components/SingleGroupPage/index.js).   *)
(*                                                                         *)
(* The relational store is a set of rows per table.  One HTTP request is   *)
(* one action: the middleware chain of the route, then the handler body.   *)
(* The SQL that Sequelize generates for the aggregate listings (LEFT JOIN, *)
(* COUNT, GROUP BY) is computed row by row as the database computes it.    *)
(***************************************************************************)
EXTENDS Integers, Sequences, FiniteSets, TLC

VARIABLES
    Groups,        \* table Groups
    Memberships,   \* table Memberships
    GroupImages,   \* table GroupImages
    Venues,        \* table Venues
    Events,        \* table Events
    Attendances,   \* table Attendances
    EventImages,   \* table EventImages
    seq,           \* next auto-increment id of every table
    res,           \* the response written by the last request
    now,           \* the browser's clock (new Date())
    allEvents,     \* redux store: state.events.allEvents
    events,        \* SingleGroupPage: the component's events array
    pastEvents,    \* SingleGroupPage: pastEvents
    upcomingEvents, \* SingleGroupPage: upcomingEvents
    view,          \* SingleGroupPage: what the last render returned
    form,          \* CreateGroupPage: route params, state hooks and handleSubmit
    requests       \* requests of SpecConcurrent: how far each has run, and its answer

db == <<Groups, Memberships, GroupImages, Venues, Events, Attendances, EventImages, seq>>
front == <<now, allEvents, events, pastEvents, upcomingEvents, view>>
vars == <<Groups, Memberships, GroupImages, Venues, Events, Attendances, EventImages,
          seq, res, now, allEvents, events, pastEvents, upcomingEvents, view, form,
          requests>>

----------------------------------------------------------------------------
(* Bounds of the model. *)

MaxGroups == 2          \* groups ever created (Spec, SpecList)
MaxGroupsSmall == 1     \* groups ever created (SpecValidate, SpecEvents)
MaxMemberships == 1     \* memberships ever created (Spec)
MaxGroupImages == 1     \* group images ever created (Spec, SpecValidate)
MaxVenues == 1          \* venues ever created
MaxEvents == 1          \* events ever created
MaxListMemberships == 2 \* memberships ever created (SpecList)
MaxListImages == 2      \* group images ever created (SpecList)
MaxAttendances == 2     \* attendances ever created (SpecEvents)
MaxEventImages == 2     \* event images ever created (SpecEvents)
MaxFrontEvents == 2     \* ids of the events in the browser's store (SpecFront)

(* Registered users; 0 stands for a request that carries no session. *)
Users == {1, 2}
NoUser == 0
Principals == Users \cup {NoUser}

----------------------------------------------------------------------------
(* JavaScript values of a JSON request body, and SQL NULL. *)

Undefined == [t |-> "undefined"]
Null == [t |-> "null"]
Str(s) == [t |-> "string", v |-> s]
Num(n) == [t |-> "number", v |-> n]
Bool(b) == [t |-> "boolean", v |-> b]

(* !value *)
Falsy(x) ==
    \/ x.t \in {"undefined", "null"}
    \/ x.t = "string" /\ x.v = ""
    \/ x.t = "number" /\ x.v = 0
    \/ x.t = "boolean" /\ x.v = FALSE

(* A column receives undefined as NULL. *)
ToColumn(x) == IF x.t = "undefined" THEN Null ELSE x

RECURSIVE Digits(_)
Digits(n) == IF n < 10 THEN 1 ELSE 1 + Digits(n \div 10)

(* Length of String(value) as the validators see it (undefined -> ''). *)
StrLen(x) ==
    CASE x.t = "string" -> Len(x.v)
      [] x.t = "number" -> IF x.v < 0 THEN 1 + Digits(-x.v) ELSE Digits(x.v)
      [] x.t = "boolean" -> IF x.v THEN 4 ELSE 5
      [] OTHER -> 0

(* The decimal strings the request bodies of the model use, with parseFloat. *)
NumericStrings == {"0", "45"}
ParseFloat(s) == IF s = "0" THEN 0 ELSE 45

----------------------------------------------------------------------------
(* express-validator *)

(* .exists({ checkFalsy: true }) *)
ExistsTruthy(x) == ~Falsy(x)
(* .exists({ checkFalsy: false }) *)
ExistsDefined(x) == x.t # "undefined"
(* .isLength({ min, max }); max < 0 stands for no max *)
IsLength(x, min, max) == StrLen(x) >= min /\ (max < 0 \/ StrLen(x) <= max)
(* .isIn(values) *)
IsIn(x, values) == x.t = "string" /\ x.v \in values
(* .isBoolean() *)
IsBoolean(x) ==
    \/ x.t = "boolean"
    \/ x.t = "number" /\ x.v \in {0, 1}
    \/ x.t = "string" /\ x.v \in {"true", "false", "1", "0"}
(* .isFloat({ gt, lt }) *)
IsFloat(x, gt, lt) ==
    \/ x.t = "number" /\ x.v > gt /\ x.v < lt
    \/ x.t = "string" /\ x.v \in NumericStrings
         /\ ParseFloat(x.v) > gt /\ ParseFloat(x.v) < lt

NameMax == 60
AboutMin == 50
LatGt == -89
LatLt == 91
LngGt == -179
LngLt == 181

(* validateGroup with about held to .isLength({ min: 51 }) *)
validateGroupAbout51(body) ==
    {f \in {"name", "about", "type", "private", "city", "state"} :
        CASE f = "name" -> ~(ExistsTruthy(body.name) /\ IsLength(body.name, 0, NameMax))
          [] f = "about" -> ~(ExistsTruthy(body.about) /\ IsLength(body.about, AboutMin + 1, -1))
          [] f = "type" -> ~IsIn(body.type, {"Online", "In person"})
          [] f = "private" -> ~(ExistsDefined(body.private) /\ IsBoolean(body.private))
          [] f = "city" -> ~ExistsTruthy(body.city)
          [] f = "state" -> ~ExistsTruthy(body.state)}

(* validateGroup: the fields whose chain reports an error *)
validateGroup(body) ==
    {f \in {"name", "about", "type", "private", "city", "state"} :
        CASE f = "name" -> ~(ExistsTruthy(body.name) /\ IsLength(body.name, 0, NameMax))
          [] f = "about" -> ~(ExistsTruthy(body.about) /\ IsLength(body.about, AboutMin, -1))
          [] f = "type" -> ~IsIn(body.type, {"Online", "In person"})
          [] f = "private" -> ~(ExistsDefined(body.private) /\ IsBoolean(body.private))
          [] f = "city" -> ~ExistsTruthy(body.city)
          [] f = "state" -> ~ExistsTruthy(body.state)}

(* validateVenue: the fields whose chain reports an error *)
validateVenue(body) ==
    {f \in {"address", "city", "state", "lat", "lng"} :
        CASE f = "address" -> ~ExistsTruthy(body.address)
          [] f = "city" -> ~ExistsTruthy(body.city)
          [] f = "state" -> ~ExistsTruthy(body.state)
          [] f = "lat" -> ~(ExistsTruthy(body.lat) /\ IsFloat(body.lat, LatGt, LatLt))
          [] f = "lng" -> ~(ExistsTruthy(body.lng) /\ IsFloat(body.lng, LngGt, LngLt))}

----------------------------------------------------------------------------
(* Request bodies. *)

Ten == "abcdefghij"
About49 == Ten \o Ten \o Ten \o Ten \o "abcdefghi"
About50 == Ten \o Ten \o Ten \o Ten \o Ten
About51 == About50 \o "k"
Name60 == About50 \o Ten
Name61 == Name60 \o "k"

GroupBody == [name |-> Str(Name60), about |-> Str(About50), type |-> Str("Online"),
              private |-> Bool(FALSE), city |-> Str("NYC"), state |-> Str("NY")]
EmptyGroupBody == [name |-> Undefined, about |-> Undefined, type |-> Undefined,
                   private |-> Undefined, city |-> Undefined, state |-> Undefined]
GroupBodies ==
    { GroupBody,
      [GroupBody EXCEPT !.about = Str(About51)],
      [GroupBody EXCEPT !.about = Str(About49)],
      [GroupBody EXCEPT !.about = Undefined],
      [GroupBody EXCEPT !.name = Str(Name61)],
      [GroupBody EXCEPT !.name = Str("")],
      [GroupBody EXCEPT !.type = Str("Hybrid")],
      [GroupBody EXCEPT !.type = Undefined],
      [GroupBody EXCEPT !.private = Undefined],
      [GroupBody EXCEPT !.private = Str("yes")],
      [GroupBody EXCEPT !.city = Undefined],
      [GroupBody EXCEPT !.state = Str("")],
      EmptyGroupBody }

Urls == {"a.png", "b.png"}
ImageBodies ==
    [url : {Str(s) : s \in Urls}, preview : {Bool(TRUE), Bool(FALSE)}]
        \cup {[url |-> Undefined, preview |-> Undefined]}

VenueBody == [address |-> Str("1 Main St"), city |-> Str("NYC"), state |-> Str("NY"),
              lat |-> Num(45), lng |-> Num(100)]
Lats == {Num(-90), Num(-89), Num(-88), Num(0), Num(90), Num(91), Str("0"), Undefined}
VenueBodies ==
    {[VenueBody EXCEPT !.lat = l] : l \in Lats}
        \cup { [VenueBody EXCEPT !.address = Undefined],
               [VenueBody EXCEPT !.city = Str("")],
               [VenueBody EXCEPT !.state = Undefined],
               [VenueBody EXCEPT !.lng = Num(181)],
               [VenueBody EXCEPT !.lng = Undefined] }

GroupIds == 1..(MaxGroups + 1)
GroupIdsSmall == 1..(MaxGroupsSmall + 1)
EventIds == 1..(MaxEvents + 1)

----------------------------------------------------------------------------
(* utils/auth and utils/validation: a middleware answers 0 (next()) or the  *)
(* HTTP status of the error it passes on.                                   *)

requireAuth(u) == IF u = NoUser THEN 401 ELSE 0

groupExists(gid) == IF \E g \in Groups : g.id = gid THEN 0 ELSE 404

isOrganizer(u, gid) ==
    IF \E g \in Groups : g.id = gid /\ g.organizerId = u THEN 0 ELSE 403

isOrgOrCo(u, gid) ==
    IF \/ \E g \in Groups : g.id = gid /\ g.organizerId = u
       \/ \E m \in Memberships : m.groupId = gid /\ m.userId = u /\ m.status = "co-host"
    THEN 0 ELSE 403

handleValidationErrors(errors) == IF errors = {} THEN 0 ELSE 400

Middleware(name, u, gid, body) ==
    CASE name = "requireAuth" -> requireAuth(u)
      [] name = "groupExists" -> groupExists(gid)
      [] name = "isOrganizer" -> isOrganizer(u, gid)
      [] name = "isOrgOrCo" -> isOrgOrCo(u, gid)
      [] name = "validateGroup" -> handleValidationErrors(validateGroup(body))
      [] name = "validateVenue" -> handleValidationErrors(validateVenue(body))

(* Express runs the middleware of a route in order; the first error ends the *)
(* chain and the handler body is not called.  0: the handler body runs.      *)
RECURSIVE RunChain(_, _, _, _)
RunChain(chain, u, gid, body) ==
    IF chain = <<>> THEN 0
    ELSE LET st == Middleware(Head(chain), u, gid, body)
         IN  IF st # 0 THEN st ELSE RunChain(Tail(chain), u, gid, body)

(* The middleware each route of groups.js names, in the order it names it. *)
GetCurrentChain == <<"requireAuth">>
PostGroupChain == <<"requireAuth", "validateGroup">>
PostGroupImageChain == <<"requireAuth", "groupExists", "isOrganizer">>
(* PUT /:groupId with isOrganizer named before groupExists *)
PutGroupChainOrganizerFirst == <<"requireAuth", "isOrganizer", "groupExists", "validateGroup">>
PutGroupChain == <<"requireAuth", "groupExists", "isOrganizer", "validateGroup">>
DeleteGroupChain == <<"requireAuth", "groupExists", "isOrganizer">>
PostVenueChain == <<"requireAuth", "groupExists", "isOrgOrCo", "validateVenue">>
GetGroupEventsChain == <<"requireAuth", "groupExists">>

----------------------------------------------------------------------------
(* The aggregate queries.  An include is a LEFT OUTER JOIN: a parent with   *)
(* no matching child row is joined to one row of NULLs (id 0).              *)

NoMembership == [id |-> 0, groupId |-> 0, userId |-> 0, status |-> "NULL"]
NoGroupImage == [id |-> 0, groupId |-> 0, url |-> Null, preview |-> Null]
NoAttendance == [id |-> 0, eventId |-> 0, userId |-> 0, status |-> "NULL"]
NoEventImage == [id |-> 0, eventId |-> 0, url |-> Null, preview |-> Null]

LeftJoin(rows, nulls) == IF rows = {} THEN {nulls} ELSE rows

(* The join without where: { preview: true } on GroupImages *)
GroupJoinAnyImage ==
    UNION { { [g |-> g, m |-> m, i |-> i] :
                m \in LeftJoin({x \in Memberships : x.groupId = g.id}, NoMembership),
                i \in LeftJoin({x \in GroupImages : x.groupId = g.id}, NoGroupImage) }
            : g \in Groups }

(* Groups LEFT JOIN Memberships LEFT JOIN GroupImages ON preview = true *)
GroupJoin ==
    UNION { { [g |-> g, m |-> m, i |-> i] :
                m \in LeftJoin({x \in Memberships : x.groupId = g.id}, NoMembership),
                i \in LeftJoin({x \in GroupImages :
                                  x.groupId = g.id /\ x.preview = Bool(TRUE)}, NoGroupImage) }
            : g \in Groups }

(* SELECT Group.*, COUNT(Memberships.id) AS numMembers,                     *)
(*        GroupImages.url AS previewImage ... GROUP BY Group.id, GroupImages.url *)
GroupAggregate(joined) ==
    { [id |-> k.g.id, organizerId |-> k.g.organizerId, name |-> k.g.name,
       about |-> k.g.about, type |-> k.g.type, private |-> k.g.private,
       city |-> k.g.city, state |-> k.g.state,
       numMembers |-> Cardinality({r \in joined :
                        r.g.id = k.g.id /\ r.i.url = k.i.url /\ r.m.id # 0}),
       previewImage |-> k.i.url] : k \in joined }

(* GET /groups *)
GetGroupsRows == GroupAggregate(GroupJoin)

(* Membership.count({ where: { groupId } }) *)
MembershipCount(gid) == Cardinality({m \in Memberships : m.groupId = gid})

(* GET /groups/current keeping the numMembers of the grouped query *)
GetCurrentRowsAggregateOnly(u) ==
    GroupAggregate({r \in GroupJoin : r.g.organizerId = u \/ r.m.userId = u})

(* GET /groups/current: the same query WHERE organizerId = :user OR          *)
(* Memberships.userId = :user, then numMembers replaced row by row.          *)
GetCurrentRows(u) ==
    LET groups1 == GroupAggregate({r \in GroupJoin :
                                     r.g.organizerId = u \/ r.m.userId = u})
    IN  { [group EXCEPT !.numMembers = MembershipCount(group.id)] : group \in groups1 }

(* Events LEFT JOIN Attendances ON status = 'attending'                      *)
(*        LEFT JOIN EventImages ON preview = true WHERE groupId = :groupId   *)
EventJoin(gid) ==
    UNION { { [e |-> e, a |-> a, i |-> i] :
                a \in LeftJoin({x \in Attendances :
                                  x.eventId = e.id /\ x.status = "attending"}, NoAttendance),
                i \in LeftJoin({x \in EventImages :
                                  x.eventId = e.id /\ x.preview = Bool(TRUE)}, NoEventImage) }
            : e \in {x \in Events : x.groupId = gid} }

(* GET /groups/:groupId/events: COUNT(Attendances.id) AS numAttending        *)
(* GROUP BY Event.id, EventImages.url, Group.id, Venue.id                    *)
GetGroupEventsRows(gid) ==
    LET joined == EventJoin(gid)
    IN  { [id |-> k.e.id, groupId |-> k.e.groupId, venueId |-> k.e.venueId,
           numAttending |-> Cardinality({r \in joined :
                              r.e.id = k.e.id /\ r.i.url = k.i.url /\ r.a.id # 0}),
           previewImage |-> k.i.url] : k \in joined }

----------------------------------------------------------------------------
(* db/models: what the store does on a delete (the associations' onDelete:  *)
(* CASCADE).                                                                 *)

GroupDestroy(gid) ==
    LET gone == {e.id : e \in {x \in Events : x.groupId = gid}}
    IN  /\ Groups' = {g \in Groups : g.id # gid}
        /\ Memberships' = {m \in Memberships : m.groupId # gid}
        /\ GroupImages' = {i \in GroupImages : i.groupId # gid}
        /\ Venues' = {v \in Venues : v.groupId # gid}
        /\ Events' = {e \in Events : e.groupId # gid}
        /\ Attendances' = {a \in Attendances : a.eventId \notin gone}
        /\ EventImages' = {i \in EventImages : i.eventId \notin gone}

(* GroupImage.create with a missing column value: the schema either takes   *)
(* NULL or rejects the row.                                                  *)
GroupImageCreateOutcomes(body) ==
    IF body.url = Undefined \/ body.preview = Undefined
    THEN {"inserted", "rejected"} ELSE {"inserted"}

----------------------------------------------------------------------------
(* The routes of groups.js. *)

Respond(route, status, body) == res' = [route |-> route, status |-> status, body |-> body]

(* router.get('/') *)
GetGroups ==
    /\ Respond("GET /groups", 200, GetGroupsRows)
    /\ UNCHANGED <<db, front>>

(* router.get('/current') *)
GetCurrent(u) ==
    LET st == RunChain(GetCurrentChain, u, 0, EmptyGroupBody)
    IN  /\ IF st # 0 THEN Respond("GET /groups/current", st, {})
                     ELSE Respond("GET /groups/current", 200, GetCurrentRows(u))
        /\ UNCHANGED <<db, front>>

(* router.post('/') *)
PostGroup(u, body) ==
    LET st == RunChain(PostGroupChain, u, 0, body)
    IN  /\ IF st # 0
           THEN /\ Respond("POST /groups", st, {})
                /\ UNCHANGED db
           ELSE /\ Groups' = Groups \cup
                     {[id |-> seq.Groups, organizerId |-> u,
                       name |-> ToColumn(body.name), about |-> ToColumn(body.about),
                       type |-> ToColumn(body.type), private |-> ToColumn(body.private),
                       city |-> ToColumn(body.city), state |-> ToColumn(body.state)]}
                /\ seq' = [seq EXCEPT !.Groups = @ + 1]
                /\ Respond("POST /groups", 200, {})
                /\ UNCHANGED <<Memberships, GroupImages, Venues, Events, Attendances,
                               EventImages>>
        /\ UNCHANGED front

(* router.post('/:groupId/images') *)
PostGroupImage(u, gid, body) ==
    LET st == RunChain(PostGroupImageChain, u, gid, body)
    IN  /\ IF st # 0
           THEN /\ Respond("POST /groups/:groupId/images", st, {})
                /\ UNCHANGED db
           ELSE \E outcome \in GroupImageCreateOutcomes(body) :
                  IF outcome = "rejected"
                  THEN /\ Respond("POST /groups/:groupId/images", 500, {})
                       /\ UNCHANGED db
                  ELSE /\ GroupImages' = GroupImages \cup
                            {[id |-> seq.GroupImages, groupId |-> gid,
                              url |-> ToColumn(body.url),
                              preview |-> ToColumn(body.preview)]}
                       /\ seq' = [seq EXCEPT !.GroupImages = @ + 1]
                       /\ Respond("POST /groups/:groupId/images", 200, {})
                       /\ UNCHANGED <<Groups, Memberships, Venues, Events, Attendances,
                                      EventImages>>
        /\ UNCHANGED front

(* router.put('/:groupId') *)
PutGroup(u, gid, body) ==
    LET st == RunChain(PutGroupChain, u, gid, body)
    IN  /\ IF st # 0
           THEN /\ Respond("PUT /groups/:groupId", st, {})
                /\ UNCHANGED db
           ELSE /\ Groups' =
                     { IF group.id = gid
                       THEN [group EXCEPT
                               !.name = ToColumn(body.name), !.about = ToColumn(body.about),
                               !.type = ToColumn(body.type),
                               !.private = ToColumn(body.private),
                               !.city = ToColumn(body.city), !.state = ToColumn(body.state)]
                       ELSE group : group \in Groups }
                /\ Respond("PUT /groups/:groupId", 200, {})
                /\ UNCHANGED <<Memberships, GroupImages, Venues, Events, Attendances,
                               EventImages, seq>>
        /\ UNCHANGED front

(* DELETE /:groupId answering without group.destroy() *)
DeleteGroupNoDestroy(u, gid) ==
    LET st == RunChain(DeleteGroupChain, u, gid, EmptyGroupBody)
    IN  /\ IF st # 0 THEN Respond("DELETE /groups/:groupId", st, {})
                     ELSE Respond("DELETE /groups/:groupId", 200, {})
        /\ UNCHANGED <<db, front>>

(* router.delete('/:groupId') *)
DeleteGroup(u, gid) ==
    LET st == RunChain(DeleteGroupChain, u, gid, EmptyGroupBody)
    IN  /\ IF st # 0
           THEN /\ Respond("DELETE /groups/:groupId", st, {})
                /\ UNCHANGED db
           ELSE /\ GroupDestroy(gid)
                /\ Respond("DELETE /groups/:groupId", 200, {})
                /\ UNCHANGED seq
        /\ UNCHANGED front

(* router.post('/:groupId/venues') *)
PostVenue(u, gid, body) ==
    LET st == RunChain(PostVenueChain, u, gid, body)
    IN  /\ IF st # 0
           THEN /\ Respond("POST /groups/:groupId/venues", st, {})
                /\ UNCHANGED db
           ELSE /\ Venues' = Venues \cup
                     {[id |-> seq.Venues, groupId |-> gid,
                       address |-> ToColumn(body.address), city |-> ToColumn(body.city),
                       state |-> ToColumn(body.state), lat |-> ToColumn(body.lat),
                       lng |-> ToColumn(body.lng)]}
                /\ seq' = [seq EXCEPT !.Venues = @ + 1]
                /\ Respond("POST /groups/:groupId/venues", 200, {})
                /\ UNCHANGED <<Groups, Memberships, GroupImages, Events, Attendances,
                               EventImages>>
        /\ UNCHANGED front

(* router.get('/:groupId/events') *)
GetGroupEvents(u, gid) ==
    LET st == RunChain(GetGroupEventsChain, u, gid, EmptyGroupBody)
    IN  /\ IF st # 0 THEN Respond("GET /groups/:groupId/events", st, {})
                     ELSE Respond("GET /groups/:groupId/events", 200, GetGroupEventsRows(gid))
        /\ UNCHANGED <<db, front>>

----------------------------------------------------------------------------
(* The rows the other routers of the API insert (memberships, events,       *)
(* attendances, event images); the schema puts no uniqueness on them.       *)

OtherRoute == [route |-> "other", status |-> 200, body |-> {}]

AddMembership(u, gid, status) ==
    /\ \E g \in Groups : g.id = gid
    /\ Memberships' = Memberships \cup
         {[id |-> seq.Memberships, groupId |-> gid, userId |-> u, status |-> status]}
    /\ seq' = [seq EXCEPT !.Memberships = @ + 1]
    /\ res' = OtherRoute
    /\ UNCHANGED <<Groups, GroupImages, Venues, Events, Attendances, EventImages, front>>

AddEvent(gid, venueId) ==
    /\ \E g \in Groups : g.id = gid
    /\ venueId = 0 \/ \E v \in Venues : v.id = venueId /\ v.groupId = gid
    /\ Events' = Events \cup {[id |-> seq.Events, groupId |-> gid, venueId |-> venueId]}
    /\ seq' = [seq EXCEPT !.Events = @ + 1]
    /\ res' = OtherRoute
    /\ UNCHANGED <<Groups, Memberships, GroupImages, Venues, Attendances, EventImages, front>>

AddAttendance(u, eid, status) ==
    /\ \E e \in Events : e.id = eid
    /\ Attendances' = Attendances \cup
         {[id |-> seq.Attendances, eventId |-> eid, userId |-> u, status |-> status]}
    /\ seq' = [seq EXCEPT !.Attendances = @ + 1]
    /\ res' = OtherRoute
    /\ UNCHANGED <<Groups, Memberships, GroupImages, Venues, Events, EventImages, front>>

AddEventImage(eid, url, preview) ==
    /\ \E e \in Events : e.id = eid
    /\ EventImages' = EventImages \cup
         {[id |-> seq.EventImages, eventId |-> eid, url |-> Str(url), preview |-> Bool(preview)]}
    /\ seq' = [seq EXCEPT !.EventImages = @ + 1]
    /\ res' = OtherRoute
    /\ UNCHANGED <<Groups, Memberships, GroupImages, Venues, Events, Attendances, front>>

----------------------------------------------------------------------------
(* SingleGroupPage: the partition of the group's events. *)

PageGroupId == 1

(* The start dates of the model, and Date.parse of each, in days since the  *)
(* epoch (Date.parse counts milliseconds: 86,400,000 times this).           *)
Dates == {"2020-01-01", "2026-11-05", "2099-01-01"}
DateParse(d) ==
    CASE d = "2020-01-01" -> 18262
      [] d = "2026-11-05" -> 20762
      [] d = "2099-01-01" -> 47117

(* What new Date() can answer, in the same unit. *)
Clock == {18262, 20000, 30000, 50000}

(* Object.values of an object keyed by id: ascending id. *)
RECURSIVE ObjectValues(_)
ObjectValues(S) ==
    IF S = {} THEN <<>>
    ELSE LET e == CHOOSE x \in S : \A y \in S : x.id <= y.id
         IN  <<e>> \o ObjectValues(S \ {e})

(* .filter((event) => event.groupId == groupId) *)
OfGroup(list) ==
    LET test(event) == event.groupId = PageGroupId
    IN  SelectSeq(list, test)

(* Array.prototype.sort with (a, b) => Date.parse(a.startDate) -            *)
(* Date.parse(b.startDate): stable, ascending.                              *)
RECURSIVE InsertSorted(_, _)
InsertSorted(e, list) ==
    IF list = <<>> THEN <<e>>
    ELSE IF DateParse(list[Len(list)].startDate) - DateParse(e.startDate) <= 0
         THEN Append(list, e)
         ELSE Append(InsertSorted(e, SubSeq(list, 1, Len(list) - 1)), list[Len(list)])

RECURSIVE SortByStart(_)
SortByStart(list) ==
    IF list = <<>> THEN <<>>
    ELSE InsertSorted(list[Len(list)], SortByStart(SubSeq(list, 1, Len(list) - 1)))

(* getTimeEvents without the two assignments that empty the arrays *)
getTimeEventsNoReset(list, current, past, upcoming) ==
    LET isPast(event) == current > DateParse(event.startDate)
        isUpcoming(event) == ~(current > DateParse(event.startDate))
    IN  [pastEvents |-> SortByStart(past \o SelectSeq(list, isPast)),
         upcomingEvents |-> SortByStart(upcoming \o SelectSeq(list, isUpcoming))]

(* getTimeEvents(events), called with the arrays pastEvents and             *)
(* upcomingEvents hold and with the clock at current.                       *)
getTimeEvents(list, current, past, upcoming) ==
    LET isPast(event) == current > DateParse(event.startDate)
        isUpcoming(event) == ~(current > DateParse(event.startDate))
    IN  [pastEvents |-> SortByStart(<<>> \o SelectSeq(list, isPast)),
         upcomingEvents |-> SortByStart(<<>> \o SelectSeq(list, isUpcoming))]

(* <h1>Loading...</h1>, returned while the group is not in the store. *)
Loading == [loading |-> TRUE]

(* cond ? (<><h2>title (n)</h2>{list.map(EventPreview)}</>) : null *)
Section(cond, list) ==
    IF cond THEN [shown |-> TRUE, count |-> Len(list), items |-> list]
            ELSE [shown |-> FALSE, count |-> 0, items |-> <<>>]

(* The events block the component returns: lines 118-134. *)
EventsBlock(list, upcoming, past) ==
    [loading |-> FALSE,
     notice |-> ~(Len(list) # 0),
     upcoming |-> Section(Len(upcoming) # 0, upcoming),
     past |-> Section(Len(upcoming) # 0, past)]

(* One render of the component: lines 17-40, then the return of lines       *)
(* 61-160 with the group loaded or not.                                     *)
Render ==
    LET list == OfGroup(ObjectValues(allEvents))
        parts == getTimeEvents(list, now, <<>>, <<>>)
    IN  /\ events' = list
        /\ pastEvents' = parts.pastEvents
        /\ upcomingEvents' = parts.upcomingEvents
        /\ \E loaded \in BOOLEAN :
              view' = IF loaded THEN EventsBlock(list, parts.upcomingEvents, parts.pastEvents)
                                ELSE Loading
        /\ UNCHANGED <<now, allEvents, db, res>>

(* The effect after mount: lines 42-52.  returned is what                   *)
(* dispatch(getEvents()) hands back to the component.                       *)
Effect(returned) ==
    LET list == OfGroup(ObjectValues(returned))
        parts == getTimeEvents(list, now, pastEvents, upcomingEvents)
    IN  /\ events' = list
        /\ pastEvents' = parts.pastEvents
        /\ upcomingEvents' = parts.upcomingEvents
        /\ UNCHANGED <<now, allEvents, view, db, res>>

(* store/events: dispatch(getEvents()) answers the events it fetched, or a  *)
(* pending promise, which has no enumerable property.                       *)
DispatchReturns == {allEvents, {}}

(* The events reducer replaces the store with the events the API answered.  *)
EventStores ==
    {S \in SUBSET [id : 1..MaxFrontEvents, groupId : {PageGroupId, PageGroupId + 1},
                   startDate : Dates] :
        \A x, y \in S : x.id = y.id => x = y}

LoadEvents(fetched) ==
    /\ allEvents' = fetched
    /\ UNCHANGED <<now, events, pastEvents, upcomingEvents, view, db, res>>

Tick(t) ==
    /\ t > now
    /\ now' = t
    /\ UNCHANGED <<allEvents, events, pastEvents, upcomingEvents, view, db, res>>

----------------------------------------------------------------------------
(* CreateGroupPage: handleSubmit of the create/update form. *)

MaxDispatched == 3      \* thunks the form ever dispatches (SpecForm)

(* useParams() under /groups/new and under /groups/:groupId/edit. *)
NewParams == [route |-> "/groups/new"]
EditParams(gid) == [route |-> "/groups/:groupId/edit", groupId |-> gid]

(* const isCreate = !groupId *)
isCreate == "groupId" \notin DOMAIN form.params

(* What the inputs hold at submit: every value is a string, state is        *)
(* undefined while the location has no ', ', and a mounted form that was    *)
(* never typed in holds ''.                                                 *)
FormBody == [GroupBody EXCEPT !.private = Str("false")]
BlankBody == [name |-> Str(""), about |-> Str(""), type |-> Str(""),
              private |-> Str(""), city |-> Str(""), state |-> Str("")]
FormPayloads ==
    { FormBody,
      [FormBody EXCEPT !.about = Str(About49)],
      [FormBody EXCEPT !.state = Undefined],
      BlankBody }
Images == {"", "a.png"}

(* The promise of dispatch(postGroup(..)) / dispatch(putGroup(..)). *)
Pending == [state |-> "pending"]
Resolved(g) == [state |-> "resolved", group |-> g]
Rejected(data) == [state |-> "rejected", json |-> TRUE, data |-> data]
NetworkError == [state |-> "rejected", json |-> FALSE]

(* The JSON body of an error response: a 400 of the validators carries the  *)
(* field-error map, any other error a message only.                         *)
ErrorBody(status, payload) ==
    IF status = 400 THEN [message |-> "Bad Request", errors |-> validateGroup(payload)]
    ELSE [message |-> "error"]

(* store/groups: the thunk resolves with the group the API answered and     *)
(* rejects with the Response of an error status.                            *)
ThunkSettles(response, payload, id) ==
    IF response.status = 200 THEN Resolved([id |-> id])
    ELSE Rejected(ErrorBody(response.status, payload))

(* `/groups/${group.id}` *)
GroupPath(id) == "/groups/" \o ToString(id)

InitialForm ==
    [params |-> NewParams, pc |-> "idle", session |-> NoUser, image |-> "",
     settled |-> Pending, group |-> Undefined, errors |-> {},
     dispatched |-> <<>>, history |-> <<>>]

InitForm == form = InitialForm

(* The page mounts under one of its two routes: lines 8-22. *)
Mount(p) ==
    /\ form.pc \in {"idle", "done", "failed"}
    /\ form' = [InitialForm EXCEPT !.params = p, !.dispatched = form.dispatched,
                                   !.history = form.history]
    /\ UNCHANGED <<db, res, front, requests>>

(* handleSubmit up to its await: lines 29-42 and 53, with the request the   *)
(* thunk sends in the session of user u.                                    *)
Submit(u, payload, image) ==
    /\ form.pc \in {"idle", "done"}
    /\ IF isCreate THEN PostGroup(u, payload)
                   ELSE PutGroup(u, form.params.groupId, payload)
    /\ LET settled == ThunkSettles(res', payload,
                                   IF isCreate THEN seq.Groups ELSE form.params.groupId)
       IN  form' = [form EXCEPT
                      !.session = u, !.image = image, !.settled = settled,
                      !.pc = IF settled.state = "resolved" THEN "resumed" ELSE "catch",
                      !.group = IF settled.state = "resolved" THEN settled.group
                                ELSE Undefined,
                      !.dispatched =
                          Append(@, [thunk |-> IF isCreate THEN "postGroup" ELSE "putGroup",
                                     payload |-> payload])]
    /\ UNCHANGED requests

(* The same with the request never answered: fetch rejects with an error    *)
(* that is no Response.                                                     *)
SubmitOffline(payload, image) ==
    /\ form.pc \in {"idle", "done"}
    /\ form' = [form EXCEPT
                  !.image = image, !.settled = NetworkError, !.pc = "catch",
                  !.group = Undefined,
                  !.dispatched =
                      Append(@, [thunk |-> IF isCreate THEN "postGroup" ELSE "putGroup",
                                 payload |-> payload])]
    /\ UNCHANGED <<db, res, front, requests>>

(* The .catch callback: lines 43-48 and 54-59.  res.json() of an error that *)
(* is no Response throws, and handleSubmit ends there.                      *)
Catch ==
    /\ form.pc = "catch"
    /\ IF form.settled.json
       THEN form' = [form EXCEPT
                       !.pc = "resumed", !.group = Undefined,
                       !.errors = IF "errors" \in DOMAIN form.settled.data
                                  THEN form.settled.data.errors ELSE @]
       ELSE form' = [form EXCEPT !.pc = "failed"]
    /\ UNCHANGED <<db, res, front, requests>>

(* handleSubmit after its await, dispatching the image in both modes *)
ContinueImageInBothModes ==
    /\ form.pc = "resumed"
    /\ IF form.group # Undefined
       THEN PostGroupImage(form.session, form.group.id,
                           [url |-> Str(form.image), preview |-> Bool(TRUE)])
       ELSE UNCHANGED <<db, res, front>>
    /\ form' = [form EXCEPT
                  !.pc = "done",
                  !.dispatched =
                      IF form.group # Undefined
                      THEN Append(@, [thunk |-> "postGroupImage", groupId |-> form.group.id,
                                      url |-> form.image, preview |-> TRUE])
                      ELSE @,
                  !.history = IF form.group # Undefined
                              THEN Append(@, GroupPath(form.group.id)) ELSE @]
    /\ UNCHANGED requests

(* handleSubmit after its await: lines 49-51 and 61-63, with the request    *)
(* that dispatch(postGroupImage(..)) sends.                                 *)
Continue ==
    /\ form.pc = "resumed"
    /\ IF isCreate /\ form.group # Undefined
       THEN PostGroupImage(form.session, form.group.id,
                           [url |-> Str(form.image), preview |-> Bool(TRUE)])
       ELSE UNCHANGED <<db, res, front>>
    /\ form' = [form EXCEPT
                  !.pc = "done",
                  !.dispatched =
                      IF isCreate /\ form.group # Undefined
                      THEN Append(@, [thunk |-> "postGroupImage", groupId |-> form.group.id,
                                      url |-> form.image, preview |-> TRUE])
                      ELSE @,
                  !.history = IF form.group # Undefined
                              THEN Append(@, GroupPath(form.group.id)) ELSE @]
    /\ UNCHANGED requests

----------------------------------------------------------------------------
(* PUT /:groupId and DELETE /:groupId as Node runs them: a request gives up *)
(* the event loop at every await, so the middleware that query the store,   *)
(* Group.findByPk and group.save() / group.destroy() of one request         *)
(* interleave with the steps of the others.                                 *)

MaxRequests == 2        \* requests ever received (SpecConcurrent)

ChainOf(route) ==
    IF route = "PUT /groups/:groupId" THEN PutGroupChain ELSE DeleteGroupChain

(* Express takes the request and calls the first middleware of its route. *)
Receive(route, u, gid, body) ==
    /\ requests' = requests \cup
          {[rid |-> Cardinality(requests) + 1, route |-> route, u |-> u, gid |-> gid,
            body |-> body, stage |-> "middleware", mw |-> 1, found |-> FALSE,
            status |-> 0, failed |-> FALSE]}
    /\ UNCHANGED <<db, res, front, form>>

(* The request ends with a response of this status. *)
End(r, status) ==
    /\ requests' = (requests \ {r}) \cup {[r EXCEPT !.stage = "done", !.status = status]}
    /\ Respond(r.route, status, {})

(* One middleware of the chain runs against the rows of this moment. *)
RunMiddleware(r) ==
    /\ r.stage = "middleware"
    /\ LET st == Middleware(ChainOf(r.route)[r.mw], r.u, r.gid, r.body)
       IN  IF st # 0 THEN End(r, st)
           ELSE /\ requests' = (requests \ {r}) \cup
                       {IF r.mw = Len(ChainOf(r.route))
                        THEN [r EXCEPT !.stage = "findByPk"]
                        ELSE [r EXCEPT !.mw = @ + 1]}
                /\ UNCHANGED res
    /\ UNCHANGED <<db, front, form>>

(* What a handler that dereferences null can end with: the rejection of the *)
(* async handler reaches no response, or an error handler answers 500.      *)
TypeErrorOutcomes == {0, 500}

(* let group = await Group.findByPk(req.params.groupId), lines 190 and 205, *)
(* and the first use of group: group.set(..) or group.destroy() of null     *)
(* throws a TypeError.                                                      *)
FindByPk(r) ==
    /\ r.stage = "findByPk"
    /\ IF \E g \in Groups : g.id = r.gid
       THEN /\ requests' = (requests \ {r}) \cup
                   {[r EXCEPT !.stage = "write", !.found = TRUE]}
            /\ UNCHANGED res
       ELSE \E status \in TypeErrorOutcomes :
               /\ requests' = (requests \ {r}) \cup
                      {[r EXCEPT !.stage = "done", !.status = status, !.failed = TRUE]}
               /\ IF status = 0 THEN UNCHANGED res ELSE Respond(r.route, status, {})
    /\ UNCHANGED <<db, front, form>>

(* group = await group.save(): UPDATE ... WHERE id, which changes no row    *)
(* when the row is gone; then res.status(200).json(group), lines 199-200.   *)
Save(r) ==
    /\ r.stage = "write" /\ r.route = "PUT /groups/:groupId"
    /\ Groups' =
         { IF group.id = r.gid
           THEN [group EXCEPT
                   !.name = ToColumn(r.body.name), !.about = ToColumn(r.body.about),
                   !.type = ToColumn(r.body.type), !.private = ToColumn(r.body.private),
                   !.city = ToColumn(r.body.city), !.state = ToColumn(r.body.state)]
           ELSE group : group \in Groups }
    /\ End(r, 200)
    /\ UNCHANGED <<Memberships, GroupImages, Venues, Events, Attendances, EventImages, seq,
                   front, form>>

(* await group.destroy(), then the success message: lines 206-207. *)
Destroy(r) ==
    /\ r.stage = "write" /\ r.route = "DELETE /groups/:groupId"
    /\ GroupDestroy(r.gid)
    /\ End(r, 200)
    /\ UNCHANGED <<seq, front, form>>

----------------------------------------------------------------------------
(* Specifications. *)

NoResponse == [route |-> "none", status |-> 0, body |-> {}]

InitDb ==
    /\ Groups = {} /\ Memberships = {} /\ GroupImages = {} /\ Venues = {}
    /\ Events = {} /\ Attendances = {} /\ EventImages = {}
    /\ seq = [Groups |-> 1, Memberships |-> 1, GroupImages |-> 1, Venues |-> 1,
              Events |-> 1, Attendances |-> 1, EventImages |-> 1]
    /\ res = NoResponse

InitFront ==
    /\ now = 18262 /\ allEvents = {}
    /\ events = <<>> /\ pastEvents = <<>> /\ upcomingEvents = <<>>
    /\ view = Loading

Init == InitDb /\ InitFront /\ InitForm /\ requests = {}

PreviewBody == [url |-> Str("a.png"), preview |-> Bool(TRUE)]
PutBodies == {GroupBody, [GroupBody EXCEPT !.about = Str(About49)]}

(* Spec: the routes of groups.js that change rows, with the rows of the     *)
(* other routers; PUT takes a body it accepts and one it rejects.           *)
Next ==
    \/ \E u \in Principals : seq.Groups <= MaxGroups /\ PostGroup(u, GroupBody)
          /\ UNCHANGED <<form, requests>>
    \/ \E u \in Principals, gid \in GroupIds :
          seq.GroupImages <= MaxGroupImages /\ PostGroupImage(u, gid, PreviewBody)
          /\ UNCHANGED <<form, requests>>
    \/ \E u \in Principals, gid \in GroupIds, body \in PutBodies : PutGroup(u, gid, body)
          /\ UNCHANGED <<form, requests>>
    \/ \E u \in Principals, gid \in GroupIds : DeleteGroup(u, gid)
          /\ UNCHANGED <<form, requests>>
    \/ \E u \in Principals, gid \in GroupIds :
          seq.Venues <= MaxVenues /\ PostVenue(u, gid, VenueBody)
          /\ UNCHANGED <<form, requests>>
    \/ \E u \in Users, gid \in GroupIds, status \in {"co-host", "member"} :
          seq.Memberships <= MaxMemberships /\ AddMembership(u, gid, status)
          /\ UNCHANGED <<form, requests>>
    \/ \E gid \in GroupIds, venueId \in 0..MaxVenues :
          seq.Events <= MaxEvents /\ AddEvent(gid, venueId)
          /\ UNCHANGED <<form, requests>>
    \/ GetGroups
          /\ UNCHANGED <<form, requests>>

Spec == Init /\ [][Next]_vars

(* SpecValidate: the routes that take a body, with every body of the model. *)
NextValidate ==
    \/ \E u \in Principals, body \in GroupBodies :
          seq.Groups <= MaxGroupsSmall /\ PostGroup(u, body)
          /\ UNCHANGED <<form, requests>>
    \/ \E u \in Principals, gid \in GroupIdsSmall, body \in ImageBodies :
          seq.GroupImages <= MaxGroupImages /\ PostGroupImage(u, gid, body)
          /\ UNCHANGED <<form, requests>>
    \/ \E u \in Principals, gid \in GroupIdsSmall, body \in GroupBodies :
          PutGroup(u, gid, body)
          /\ UNCHANGED <<form, requests>>
    \/ \E u \in Principals, gid \in GroupIdsSmall, body \in VenueBodies :
          seq.Venues <= MaxVenues /\ PostVenue(u, gid, body)
          /\ UNCHANGED <<form, requests>>

SpecValidate == Init /\ [][NextValidate]_vars

(* SpecList: the two group listings over groups, members and images. *)
NextList ==
    \/ \E u \in Users : seq.Groups <= MaxGroups /\ PostGroup(u, GroupBody)
          /\ UNCHANGED <<form, requests>>
    \/ \E u \in Users, gid \in GroupIds,
          body \in [url : {Str(s) : s \in Urls}, preview : {Bool(TRUE), Bool(FALSE)}] :
          seq.GroupImages <= MaxListImages /\ PostGroupImage(u, gid, body)
          /\ UNCHANGED <<form, requests>>
    \/ \E u \in Users, gid \in GroupIds :
          seq.Memberships <= MaxListMemberships /\ AddMembership(u, gid, "member")
          /\ UNCHANGED <<form, requests>>
    \/ GetGroups
          /\ UNCHANGED <<form, requests>>
    \/ \E u \in Principals : GetCurrent(u)
          /\ UNCHANGED <<form, requests>>

SpecList == Init /\ [][NextList]_vars

(* SpecEvents: the event listing of a group over events, attendances and    *)
(* event images.                                                             *)
NextEvents ==
    \/ \E u \in Users : seq.Groups <= MaxGroupsSmall /\ PostGroup(u, GroupBody)
          /\ UNCHANGED <<form, requests>>
    \/ \E gid \in GroupIdsSmall : seq.Events <= MaxEvents /\ AddEvent(gid, 0)
          /\ UNCHANGED <<form, requests>>
    \/ \E u \in Users, eid \in EventIds, status \in {"attending", "pending"} :
          seq.Attendances <= MaxAttendances /\ AddAttendance(u, eid, status)
          /\ UNCHANGED <<form, requests>>
    \/ \E eid \in EventIds, url \in Urls, preview \in BOOLEAN :
          seq.EventImages <= MaxEventImages /\ AddEventImage(eid, url, preview)
          /\ UNCHANGED <<form, requests>>
    \/ \E u \in Principals, gid \in GroupIdsSmall : GetGroupEvents(u, gid)
          /\ UNCHANGED <<form, requests>>

SpecEvents == Init /\ [][NextEvents]_vars

(* SpecFront: the single-group page in the browser. *)
NextFront ==
    \/ \E fetched \in EventStores : LoadEvents(fetched)
          /\ UNCHANGED <<form, requests>>
    \/ \E t \in Clock : Tick(t)
          /\ UNCHANGED <<form, requests>>
    \/ Render
          /\ UNCHANGED <<form, requests>>
    \/ \E returned \in DispatchReturns : Effect(returned)
          /\ UNCHANGED <<form, requests>>

SpecFront == Init /\ [][NextFront]_vars

(* SpecForm: the create/update form in the browser against the routes it   *)
(* calls.                                                                   *)
NextForm ==
    \/ \E p \in {NewParams} \cup {EditParams(gid) : gid \in GroupIdsSmall} :
          Mount(p)
    \/ \E u \in Principals, payload \in FormPayloads, image \in Images :
          /\ Len(form.dispatched) < MaxDispatched
          /\ isCreate => seq.Groups <= MaxGroupsSmall
          /\ Submit(u, payload, image)
    \/ \E payload \in FormPayloads, image \in Images :
          Len(form.dispatched) < MaxDispatched /\ SubmitOffline(payload, image)
    \/ Catch
    \/ Continue

SpecForm == Init /\ [][NextForm]_vars

(* SpecConcurrent: PUT and DELETE requests on the groups, step by step. *)
MutatingRoutes == {"PUT /groups/:groupId", "DELETE /groups/:groupId"}

NextConcurrent ==
    \/ \E u \in Users : seq.Groups <= MaxGroupsSmall /\ PostGroup(u, GroupBody)
          /\ UNCHANGED <<form, requests>>
    \/ \E route \in MutatingRoutes, u \in Principals, gid \in GroupIdsSmall,
          body \in PutBodies :
          /\ Cardinality(requests) < MaxRequests
          /\ route = "DELETE /groups/:groupId" => body = GroupBody
          /\ Receive(route, u, gid, body)
    \/ \E r \in requests : RunMiddleware(r)
    \/ \E r \in requests : FindByPk(r)
    \/ \E r \in requests : Save(r)
    \/ \E r \in requests : Destroy(r)

SpecConcurrent == Init /\ [][NextConcurrent]_vars

----------------------------------------------------------------------------
(* Properties. *)

Ids == {g.id : g \in Groups}
MembersOf(gid) == {m \in Memberships : m.groupId = gid}
PreviewsOf(gid) == {i \in GroupImages : i.groupId = gid /\ i.preview = Bool(TRUE)}

(* C1: every row of GET /groups reports as numMembers the number of         *)
(* Membership rows of its group.                                            *)
C1_NumMembersIsMemberCount ==
    res.route = "GET /groups" =>
        \A row \in res.body : row.numMembers = Cardinality(MembersOf(row.id))

(* C2: every row of GET /groups/:groupId/events reports as numAttending the *)
(* number of Attendance rows of its event whose status is 'attending'.      *)
C2_NumAttendingIsAttendingCount ==
    (res.route = "GET /groups/:groupId/events" /\ res.status = 200) =>
        \A row \in res.body :
            row.numAttending =
                Cardinality({a \in Attendances :
                               a.eventId = row.id /\ a.status = "attending"})

(* C3: in GET /groups every group is listed; a row of a group with a        *)
(* preview-flagged image carries the url of one of that group's             *)
(* preview-flagged images, a row of a group with none carries null.         *)
C3_PreviewImage ==
    res.route = "GET /groups" =>
        /\ \A g \in Groups : \E row \in res.body : row.id = g.id
        /\ \A row \in res.body :
              /\ row.id \in Ids
              /\ IF PreviewsOf(row.id) = {}
                 THEN row.previewImage = Null
                 ELSE \E i \in PreviewsOf(row.id) : row.previewImage = i.url

C3_Witness ==
    /\ res.route = "GET /groups"
    /\ \E g, h \in Groups :
          /\ PreviewsOf(g.id) # {}
          /\ PreviewsOf(h.id) = {}
          /\ \E i \in GroupImages : i.groupId = h.id
          /\ \E row \in res.body : row.id = g.id /\ row.previewImage # Null
          /\ \E row \in res.body : row.id = h.id /\ row.previewImage = Null

(* What the specification asks of a body. *)
Present(x) == x.t = "string" /\ x.v # ""
NumberBetween(x, lo, hi) ==
    \/ x.t = "number" /\ lo < x.v /\ x.v < hi
    \/ x.t = "string" /\ x.v \in NumericStrings /\ lo < ParseFloat(x.v) /\ ParseFloat(x.v) < hi
GroupBodyOk(b) ==
    /\ Present(b.name) /\ Len(b.name.v) <= 60
    /\ Present(b.about) /\ Len(b.about.v) >= 50
    /\ b.type \in {Str("Online"), Str("In person")}
    /\ b.private.t = "boolean"
    /\ Present(b.city) /\ Present(b.state)
ImageBodyOk(b) == Present(b.url) /\ b.preview.t = "boolean"
VenueBodyOk(b) ==
    /\ Present(b.address) /\ Present(b.city) /\ Present(b.state)
    /\ NumberBetween(b.lat, -89, 91) /\ NumberBetween(b.lng, -179, 181)

IsOrg(u, gid) == \E g \in Groups : g.id = gid /\ g.organizerId = u
IsOrgOrCohost(u, gid) ==
    \/ IsOrg(u, gid)
    \/ \E m \in Memberships : m.groupId = gid /\ m.userId = u /\ m.status = "co-host"

Refused(status) == res'.status = status /\ UNCHANGED db

(* The three refusals of a guarded route, for a request of u on group gid. *)
GuardsRefuse(u, gid, capable) ==
    /\ u = NoUser => Refused(401)
    /\ (u # NoUser /\ gid \notin Ids) => Refused(404)
    /\ (u # NoUser /\ gid \in Ids /\ ~capable) => Refused(403)

(* C4: on POST /groups/:groupId/images, PUT /groups/:groupId,               *)
(* DELETE /groups/:groupId and POST /groups/:groupId/venues a request       *)
(* without a session is answered 401, a request of a user on a group that   *)
(* does not exist 404, a request of a user who is not the organizer (for    *)
(* venues: neither organizer nor co-host) of an existing group 403; in all  *)
(* three cases no row changes.                                              *)
C4_Guards ==
    [][/\ res'.route = "POST /groups/:groupId/images" =>
             \A u \in Principals, gid \in GroupIds :
                PostGroupImage(u, gid, PreviewBody) => GuardsRefuse(u, gid, IsOrg(u, gid))
       /\ res'.route = "PUT /groups/:groupId" =>
             \A u \in Principals, gid \in GroupIds, body \in PutBodies :
                PutGroup(u, gid, body) => GuardsRefuse(u, gid, IsOrg(u, gid))
       /\ res'.route = "DELETE /groups/:groupId" =>
             \A u \in Principals, gid \in GroupIds :
                DeleteGroup(u, gid) => GuardsRefuse(u, gid, IsOrg(u, gid))
       /\ res'.route = "POST /groups/:groupId/venues" =>
             \A u \in Principals, gid \in GroupIds :
                PostVenue(u, gid, VenueBody) => GuardsRefuse(u, gid, IsOrgOrCohost(u, gid))]_vars

C4_Witness ==
    /\ res.route = "POST /groups/:groupId/venues"
    /\ res.status = 403
    /\ \E m \in Memberships : m.status = "member"

(* C5: on POST /groups, PUT /groups/:groupId, POST /groups/:groupId/images  *)
(* and POST /groups/:groupId/venues a request that passes the guards with a *)
(* body that misses or violates a required field is answered 400 and no    *)
(* row changes.                                                             *)
C5_ValidationBeforeStorage ==
    [][/\ res'.route = "POST /groups" =>
             \A u \in Users, body \in GroupBodies :
                (~GroupBodyOk(body) /\ PostGroup(u, body)) => Refused(400)
       /\ res'.route = "PUT /groups/:groupId" =>
             \A u \in Users, gid \in GroupIdsSmall, body \in GroupBodies :
                (~GroupBodyOk(body) /\ IsOrg(u, gid) /\ PutGroup(u, gid, body))
                   => Refused(400)
       /\ res'.route = "POST /groups/:groupId/images" =>
             \A u \in Users, gid \in GroupIdsSmall, body \in ImageBodies :
                (~ImageBodyOk(body) /\ IsOrg(u, gid) /\ PostGroupImage(u, gid, body))
                   => Refused(400)
       /\ res'.route = "POST /groups/:groupId/venues" =>
             \A u \in Users, gid \in GroupIdsSmall, body \in VenueBodies :
                (~VenueBodyOk(body) /\ IsOrgOrCohost(u, gid) /\ PostVenue(u, gid, body))
                   => Refused(400)]_vars

(* C6: POST /groups/:groupId/venues by the organizer with the other fields  *)
(* valid and a JSON number lat creates the venue (200) exactly when         *)
(* -89 < lat < 91, and otherwise answers 400 and creates no row; so -90 is  *)
(* refused and 0 is accepted.                                               *)
C6_LatRange ==
    [][res'.route = "POST /groups/:groupId/venues" =>
          \A u \in Users, gid \in GroupIdsSmall, lat \in {l \in Lats : l.t = "number"} :
             (IsOrg(u, gid) /\ PostVenue(u, gid, [VenueBody EXCEPT !.lat = lat])) =>
                IF -89 < lat.v /\ lat.v < 91
                THEN /\ res'.status = 200
                     /\ \E v \in Venues' \ Venues : v.groupId = gid /\ v.lat = lat
                ELSE Refused(400)]_vars

NoRef(gid) ==
    /\ \A m \in Memberships : m.groupId # gid
    /\ \A i \in GroupImages : i.groupId # gid
    /\ \A v \in Venues : v.groupId # gid
    /\ \A e \in Events : e.groupId # gid
    /\ \A row \in GetGroupsRows : row.id # gid

(* C8: a DELETE /groups/:groupId answered 200 removes the group, and in     *)
(* every state no Membership, GroupImage, Venue or Event row names a group  *)
(* id that was deleted, nor does GET /groups list it.                       *)
C8_Cascade ==
    /\ [][(res'.route = "DELETE /groups/:groupId" /\ res'.status = 200) =>
             \A u \in Principals, gid \in GroupIds :
                DeleteGroup(u, gid) => (gid \notin Ids /\ NoRef(gid))']_vars
    /\ [](\A gid \in 1..(seq.Groups - 1) : gid \notin Ids => NoRef(gid))

C8_Witness ==
    /\ res.route = "DELETE /groups/:groupId"
    /\ res.status = 200
    /\ Groups # {}
    /\ seq.Memberships > 1 /\ Memberships = {}
    /\ seq.Venues > 1 /\ Venues = {}
    /\ seq.Events > 1 /\ Events = {}

(* The two arrays partition list at the clock value current. *)
Ascending(list) ==
    \A i, j \in 1..Len(list) :
        i < j => DateParse(list[i].startDate) <= DateParse(list[j].startDate)
Times(e, list) == Cardinality({j \in 1..Len(list) : list[j] = e})
Partitioned(list, past, upcoming, current) ==
    /\ Len(past) + Len(upcoming) = Len(list)
    /\ \A k \in 1..Len(list) :
          IF current > DateParse(list[k].startDate)
          THEN Times(list[k], past) = 1 /\ Times(list[k], upcoming) = 0
          ELSE Times(list[k], past) = 0 /\ Times(list[k], upcoming) = 1
    /\ Ascending(past) /\ Ascending(upcoming)

(* C9: after every call of getTimeEvents, at the clock it was called at,    *)
(* each event of its list is exactly once in pastEvents or upcomingEvents,  *)
(* in pastEvents exactly when the clock is strictly later than its          *)
(* startDate, and both arrays ascend by startDate; a second call does not   *)
(* add the events again.                                                    *)
C9_Partition ==
    [][(Render \/ \E returned \in DispatchReturns : Effect(returned)) =>
          Partitioned(events', pastEvents', upcomingEvents', now)]_vars

C9_Witness ==
    /\ now > DateParse("2020-01-01") /\ now < DateParse("2099-01-01")
    /\ Len(pastEvents) = 1 /\ pastEvents[1].startDate = "2020-01-01"
    /\ Len(upcomingEvents) = 1 /\ upcomingEvents[1].startDate = "2099-01-01"
    /\ pastEvents[1].id > upcomingEvents[1].id

(* C10: GET /groups/current of user u lists exactly the groups u organizes  *)
(* or has a Membership row in, each with the number of all Membership rows  *)
(* of the group as numMembers.                                              *)
C10_CurrentGroups ==
    [][res'.route = "GET /groups/current" =>
          \A u \in Users :
             GetCurrent(u) =>
                /\ res'.status = 200
                /\ {row.id : row \in res'.body} =
                      {g.id : g \in {x \in Groups :
                           \/ x.organizerId = u
                           \/ \E m \in Memberships : m.groupId = x.id /\ m.userId = u}}
                /\ \A row \in res'.body :
                      row.numMembers = Cardinality(MembersOf(row.id))]_vars

C10_Witness ==
    /\ res.route = "GET /groups/current"
    /\ res.status = 200
    /\ \E g \in Groups : \A row \in res.body : row.id # g.id
    /\ \E row \in res.body :
          /\ row.numMembers = 2
          /\ \E m, n \in MembersOf(row.id) : m.userId # n.userId
          /\ \E m \in MembersOf(row.id) : m.userId # row.organizerId

(* The thunks the form dispatched in the step, and the paths it pushed. *)
ImagePosted ==
    /\ Len(form'.dispatched) > Len(form.dispatched)
    /\ form'.dispatched[Len(form'.dispatched)].thunk = "postGroupImage"
Navigated == Len(form'.history) > Len(form.history)
CallSucceeded(route) ==
    /\ form.settled.state = "resolved"
    /\ res.route = route /\ res.status = 200
    /\ form.dispatched # <<>>

(* C11: handleSubmit issues the preview-image POST only in create mode,     *)
(* after postGroup succeeded, for the id of the new group and with preview  *)
(* true; it navigates to /groups/<id> only when the create or update call   *)
(* returned a group; and when the call fails with a body that has errors,   *)
(* the errors state becomes that map and neither an image POST nor a        *)
(* navigation follows.                                                      *)
C11_HandleSubmit ==
    [][/\ ImagePosted =>
            /\ isCreate
            /\ CallSucceeded("POST /groups")
            /\ form.dispatched[Len(form.dispatched)].thunk = "postGroup"
            /\ \E g \in Groups :
                  /\ g.id = form.settled.group.id
                  /\ form'.dispatched[Len(form'.dispatched)].groupId = g.id
            /\ form'.dispatched[Len(form'.dispatched)].preview = TRUE
       /\ Navigated =>
            /\ CallSucceeded(IF isCreate THEN "POST /groups" ELSE "PUT /groups/:groupId")
            /\ form.dispatched[Len(form.dispatched) ].thunk
                  = (IF isCreate THEN "postGroup" ELSE "putGroup")
            /\ form'.history[Len(form'.history)] = GroupPath(form.settled.group.id)
       /\ (form.settled.state = "rejected" /\ form'.settled = form.settled) =>
            /\ ~ImagePosted /\ ~Navigated
            /\ (form.pc = "catch" /\ form.settled.json
                   /\ "errors" \in DOMAIN form.settled.data) =>
                  form'.errors = form.settled.data.errors
            /\ (form.pc = "resumed" /\ form.settled.json
                   /\ "errors" \in DOMAIN form.settled.data) =>
                  form'.errors = form.settled.data.errors /\ form'.pc = "done"
      ]_vars

(* The form showed the errors of a refused submission, then a later         *)
(* submission created a group, posted its image and navigated.              *)
C11_Witness ==
    /\ form.pc = "done" /\ form.errors # {}
    /\ form.dispatched # <<>>
    /\ form.dispatched[Len(form.dispatched)].thunk = "postGroupImage"
    /\ form.history = <<GroupPath(form.group.id)>>
    /\ \E g \in Groups : g.id = form.group.id

(* A request to PUT or DELETE /groups/:groupId that is past groupExists and *)
(* isOrganizer.                                                             *)
PastGuards(r) ==
    /\ r.route \in MutatingRoutes
    /\ \/ r.stage \in {"findByPk", "write"}
       \/ r.stage = "middleware" /\ r.mw > 3
       \/ r.stage = "done" /\ (r.failed \/ r.status \in {200, 400})

(* C12: under every interleaving, a PUT or DELETE /groups/:groupId request  *)
(* that passed groupExists and isOrganizer finds the group when it fetches  *)
(* it again, and ends with 200 or one of 400, 403, 404, never with an       *)
(* unhandled failure on a missing group.                                    *)
C12_RefetchFindsGroup ==
    \A r \in requests :
        PastGuards(r) =>
            /\ r.stage \in {"write", "done"} /\ r.status # 400 => r.found
            /\ r.stage = "done" => ~r.failed /\ r.status \in {200, 400, 403, 404}

(* How many times the sections on screen list the event e. *)
Listed(e) ==
    Cardinality({i \in 1..Len(view'.upcoming.items) : view'.upcoming.items[i] = e})
        + Cardinality({i \in 1..Len(view'.past.items) : view'.past.items[i] = e})

(* C13: whatever the events store holds, a render of the loaded page lists  *)
(* each event of the group in exactly one section: Upcoming Events lists    *)
(* upcomingEvents and Past Events lists pastEvents whenever that array is   *)
(* not empty, and 'No upcoming events!' shows only when neither section     *)
(* does.                                                                    *)
C13_Sections ==
    [][(Render /\ ~view'.loading) =>
          /\ \A i \in 1..Len(events') : Listed(events'[i]) = 1
          /\ Len(upcomingEvents') # 0 =>
                view'.upcoming.shown /\ view'.upcoming.items = upcomingEvents'
          /\ Len(pastEvents') # 0 =>
                view'.past.shown /\ view'.past.items = pastEvents'
          /\ view'.notice => ~view'.upcoming.shown /\ ~view'.past.shown
      ]_vars
====
